---- MODULE Spec2Model ----
\* Verification model of the Monte Carlo exotic option pricer in
\* "Exotic Options/Exotic Options.ipynb": path simulation, payoff cells,
\* aggregation of payoffs and percentile queries.
EXTENDS Integers, Naturals, Sequences, FiniteSets, TLC

\* ---------------------------------------------------------------------
\* Binary floating point with FloatPrec mantissa bits and round to nearest,
\* ties to even (the rounding of every numpy float64 operation, with a
\* shorter mantissa).  A float is a record [m, e] of value m * 2^e.
\* ---------------------------------------------------------------------
FloatPrec == 5

Abs(x) == IF x < 0 THEN -x ELSE x
Min(a, b) == IF a < b THEN a ELSE b
Max(a, b) == IF a < b THEN b ELSE a

RECURSIVE FloorLog2(_, _)
\* largest j with 2^j <= a / d, for a > 0, d > 0
FloorLog2(a, d) ==
  IF a >= 2 * d THEN 1 + FloorLog2(a, 2 * d)
  ELSE IF a < d THEN FloorLog2(2 * a, d) - 1
  ELSE 0

\* the float nearest to num * 2^e / den (den > 0)
RoundQ(num, e, den) ==
  IF num = 0 THEN [m |-> 0, e |-> 0]
  ELSE
    LET s  == IF num < 0 THEN -1 ELSE 1
        a  == Abs(num)
        t  == FloatPrec - 1 - FloorLog2(a, den)
        nu == IF t >= 0 THEN a * 2^t ELSE a
        de == IF t >= 0 THEN den ELSE den * 2^(-t)
        q  == nu \div de
        r  == nu % de
        q2 == IF 2 * r > de \/ (2 * r = de /\ q % 2 = 1) THEN q + 1 ELSE q
    IN IF q2 = 2^FloatPrec
         THEN [m |-> s * 2^(FloatPrec - 1), e |-> e - t + 1]
         ELSE [m |-> s * q2, e |-> e - t]

FZero == [m |-> 0, e |-> 0]
FOne  == [m |-> 1, e |-> 0]

\* exact rational value of a float as numerator / denominator
FNum(x) == IF x.e >= 0 THEN x.m * 2^(x.e) ELSE x.m
FDen(x) == IF x.e >= 0 THEN 1 ELSE 2^(-x.e)

FAdd(x, y) ==
  LET lo == Min(x.e, y.e)
  IN RoundQ(x.m * 2^(x.e - lo) + y.m * 2^(y.e - lo), lo, 1)
FNeg(x) == [m |-> -x.m, e |-> x.e]
FSub(x, y) == FAdd(x, FNeg(y))
FMul(x, y) == RoundQ(x.m * y.m, x.e + y.e, 1)
\* x / n for a positive integer n
FDivN(x, n) == RoundQ(x.m, x.e, n)
FLt(x, y) ==
  LET lo == Min(x.e, y.e)
  IN x.m * 2^(x.e - lo) < y.m * 2^(y.e - lo)
FEq(x, y) == ~FLt(x, y) /\ ~FLt(y, x)
\* np.maximum(x, y)
FMax(x, y) == IF FLt(x, y) THEN y ELSE x

RECURSIVE FSumFrom(_, _, _)
FSumFrom(acc, s, i) == IF i > Len(s) THEN acc ELSE FSumFrom(FAdd(acc, s[i]), s, i + 1)
\* np.sum / add.reduce of a short vector: sequential accumulation
FSum(s) == FSumFrom(FZero, s, 1)

RECURSIVE FMaxFrom(_, _, _)
FMaxFrom(acc, s, i) == IF i > Len(s) THEN acc ELSE FMaxFrom(FMax(acc, s[i]), s, i + 1)
\* np.amax of a non-empty vector
FAmax(s) == FMaxFrom(s[1], s, 2)

\* np.mean(row) = sum(row) / len(row)
FMean(s) == FDivN(FSum(s), Len(s))

\* ---------------------------------------------------------------------
\* Asian and lookback call cells (one path row against the strike)
\* ---------------------------------------------------------------------
VARIABLES prow, strike, asianPay, lookPay, ppc

payVars == <<prow, strike, asianPay, lookPay, ppc>>

MaxM == 3

\* prices a simulated row can hold: 13/8, 25/16, 9/4, 17/16
RowVals == {[m |-> 13, e |-> -3], [m |-> 25, e |-> -4],
            [m |-> 9, e |-> -2], [m |-> 17, e |-> -4]}
StrikeVals == {FOne, [m |-> 3, e |-> -1]}

\* payoffs = np.maximum(0, np.mean(prices, axis=1) - strike_price)
AsianPayoffSum(row, K) == FMax(FZero, FSub(FSum(row), K))
AsianPayoff(row, K) == FMax(FZero, FSub(FMean(row), K))

\* payoffs = np.maximum(0, np.amax(prices - strike_price, axis=1))
LookbackCallPayoff(row, K) ==
  FMax(FZero, FAmax([i \in 1..Len(row) |-> FSub(row[i], K)]))

PayInit ==
  /\ prow \in UNION {[1..n -> RowVals] : n \in 1..MaxM}
  /\ strike \in StrikeVals
  /\ asianPay = FZero
  /\ lookPay = FZero
  /\ ppc = "sim"

AsianCell ==
  /\ ppc = "sim"
  /\ asianPay' = AsianPayoff(prow, strike)
  /\ ppc' = "asian"
  /\ UNCHANGED <<prow, strike, lookPay>>

LookbackCell ==
  /\ ppc = "asian"
  /\ lookPay' = LookbackCallPayoff(prow, strike)
  /\ ppc' = "done"
  /\ UNCHANGED <<prow, strike, asianPay>>

PayNext == AsianCell \/ LookbackCell

PayIdle ==
  /\ prow = <<>>
  /\ strike = FZero
  /\ asianPay = FZero
  /\ lookPay = FZero
  /\ ppc = "idle"

\* C5 (as stated): both payoffs are non-negative and the lookback call
\* payoff is at least the Asian call payoff of the same row.
C5_Original ==
  ppc = "done" =>
    /\ ~FLt(asianPay, FZero)
    /\ ~FLt(lookPay, FZero)
    /\ ~FLt(lookPay, asianPay)

\* C5 (amended): both payoffs are non-negative; the Asian payoff exceeds the
\* lookback payoff by at most (M + 3) * 2^-FloatPrec times the row maximum,
\* the rounding of the mean.
C5_Amended ==
  ppc = "done" =>
    /\ ~FLt(asianPay, FZero)
    /\ ~FLt(lookPay, FZero)
    /\ LET c == FAmax(prow)
           diffNum == FNum(asianPay) * FDen(lookPay) - FNum(lookPay) * FDen(asianPay)
       IN diffNum * FDen(c) * 2^FloatPrec
            <= (Len(prow) + 3) * FNum(c) * FDen(asianPay) * FDen(lookPay)

C5_Witness == ppc = "done" /\ FLt(lookPay, asianPay)

\* ---------------------------------------------------------------------
\* Barrier cell.  A payoff max(0, price - Barrier_price) is either the
\* float zero or, in this model, a power of two 2^k; the float64 product of
\* powers of two is 2^(sum of k), and it is rounded to zero below 2^DblMinExp.
\* ---------------------------------------------------------------------
VARIABLES brow, bcontrib, bpc

barVars == <<brow, bcontrib, bpc>>

\* smallest float64 subnormal is 2^-1074
DblMinExp == -1074

MaxCols == 3

\* a payoff: zero (price <= Barrier_price) or 2^k (price - Barrier_price = 2^k)
PZero == [zero |-> TRUE, k |-> 0]
PPow(k) == [zero |-> FALSE, k |-> k]
BarCells == {PZero, PPow(-600), PPow(-300), PPow(0)}

RECURSIVE ExpSum(_, _)
ExpSum(row, i) == IF i > Len(row) THEN 0 ELSE row[i].k + ExpSum(row, i + 1)

\* np.prod(payoffs, axis=1) with exponents <= 0 (partial products decrease)
ProdPayoffs(row) ==
  IF \E i \in 1..Len(row) : row[i].zero THEN PZero
  ELSE IF ExpSum(row, 1) < DblMinExp THEN PZero
  ELSE PPow(ExpSum(row, 1))

\* row i is in Barrier_rows iff np.prod(payoffs[i]) != 0; then it adds
\* payoffs[i][-1] to Barrier_total
BarrierContribution(row) ==
  IF ~ProdPayoffs(row).zero THEN row[Len(row)] ELSE PZero

BarInit ==
  /\ brow \in UNION {[1..n -> BarCells] : n \in 1..MaxCols}
  /\ bcontrib = PZero
  /\ bpc = "sim"

BarrierCell ==
  /\ bpc = "sim"
  /\ bcontrib' = BarrierContribution(brow)
  /\ bpc' = "done"
  /\ UNCHANGED brow

BarNext == BarrierCell

BarIdle ==
  /\ brow = <<>>
  /\ bcontrib = PZero
  /\ bpc = "idle"

\* C3: a row whose price is <= the barrier at some column contributes 0;
\* any other row contributes max(0, finalPrice - barrier).
C3_KnockOut ==
  bpc = "done" =>
    bcontrib = IF \E i \in 1..Len(brow) : brow[i].zero
                 THEN PZero ELSE brow[Len(brow)]

\* ---------------------------------------------------------------------
\* Chooser cell.  Payoffs, the running sums sum1 += ... and the division by
\* simulations are float operations, each rounded.
\* ---------------------------------------------------------------------
VARIABLES cprices, cstrike, sum1, sum2, chooserPrice, cpc

choVars == <<cprices, cstrike, sum1, sum2, chooserPrice, cpc>>

MaxSims == 2

ChoMaxCols == 2

\* prices 31/16, 5/2, 3/4
ChoPriceVals == {[m |-> 31, e |-> -4], [m |-> 5, e |-> -1], [m |-> 3, e |-> -2]}
ChoStrikeVals == {FOne, [m |-> 3, e |-> -1]}

\* choosercallpayoffs = np.maximum(0, prices - strike_price)
CallPayoffs(P, K) == [i \in 1..Len(P) |-> [j \in 1..Len(P[i]) |-> FMax(FZero, FSub(P[i][j], K))]]
\* chooserputpayoffs = np.maximum(0, strike_price - prices)
PutPayoffs(P, K) == [i \in 1..Len(P) |-> [j \in 1..Len(P[i]) |-> FMax(FZero, FSub(K, P[i][j]))]]

RECURSIVE LastColSumFrom(_, _, _)
LastColSumFrom(acc, pay, i) ==
  IF i > Len(pay) THEN acc
  ELSE LastColSumFrom(FAdd(acc, pay[i][Len(pay[i])]), pay, i + 1)
\* sum = 0; for i in range(simulations): sum += payoffs[i][-1]
LastColSum(pay) == LastColSumFrom(FZero, pay, 1)

\* a per-row choice max(call_i, put_i), summed over rows
PerRowChoice(P, K) ==
  [i \in 1..Len(P) |-> <<FMax(CallPayoffs(P, K)[i][Len(P[i])], PutPayoffs(P, K)[i][Len(P[i])])>>]
ChooserPricePerRow(P, K) == FDivN(LastColSum(PerRowChoice(P, K)), Len(P))
\* chooser_option_price = np.maximum(sum1, sum2) / simulations
ChooserPrice(P, K) ==
  FDivN(FMax(LastColSum(CallPayoffs(P, K)), LastColSum(PutPayoffs(P, K))), Len(P))

ChoInit ==
  /\ \E n \in 1..MaxSims, m \in 1..ChoMaxCols : cprices \in [1..n -> [1..m -> ChoPriceVals]]
  /\ cstrike \in ChoStrikeVals
  /\ sum1 = FZero
  /\ sum2 = FZero
  /\ chooserPrice = FZero
  /\ cpc = "sim"

ChooserCell ==
  /\ cpc = "sim"
  /\ sum1' = LastColSum(CallPayoffs(cprices, cstrike))
  /\ sum2' = LastColSum(PutPayoffs(cprices, cstrike))
  /\ chooserPrice' = ChooserPrice(cprices, cstrike)
  /\ cpc' = "done"
  /\ UNCHANGED <<cprices, cstrike>>

ChoNext == ChooserCell

ChoIdle ==
  /\ cprices = <<>>
  /\ cstrike = FZero
  /\ sum1 = FZero
  /\ sum2 = FZero
  /\ chooserPrice = FZero
  /\ cpc = "idle"

RECURSIVE SeqSum(_)
SeqSum(s) == IF s = <<>> THEN 0 ELSE Head(s) + SeqSum(Tail(s))

\* exact value of a float times 64 (all chooser values are multiples of 1/64)
X64(x) == (FNum(x) * 64) \div FDen(x)

FinalPrice(i) == cprices[i][Len(cprices[i])]

\* exact max(sum of call payoffs, sum of put payoffs), times 64
ExactChoiceMax ==
  LET N == Len(cprices)
      Calls == [i \in 1..N |-> Max(0, X64(FinalPrice(i)) - X64(cstrike))]
      Puts == [i \in 1..N |-> Max(0, X64(cstrike) - X64(FinalPrice(i)))]
  IN Max(SeqSum(Calls), SeqSum(Puts))

\* C4 (as stated): the chooser price is exactly
\* max(sum of call payoffs, sum of put payoffs) / N.
C4_Original ==
  cpc = "done" =>
    FNum(chooserPrice) * Len(cprices) * 64 = ExactChoiceMax * FDen(chooserPrice)

\* C4 (amended): the chooser price is max(sum1, sum2) / N over the batch
\* totals, equal to the exact max(sum calls, sum puts) / N up to a relative
\* rounding error of (N + 2) * 2^-FloatPrec.
C4_Chooser ==
  cpc = "done" =>
    Abs(FNum(chooserPrice) * Len(cprices) * 64 - ExactChoiceMax * FDen(chooserPrice))
      * 2^FloatPrec
      <= (Len(cprices) + 2) * ExactChoiceMax * FDen(chooserPrice)

C4_Witness ==
  /\ cpc = "done"
  /\ Len(cprices) = 2
  /\ FLt(cstrike, FinalPrice(1))
  /\ FLt(FinalPrice(2), cstrike)

\* ---------------------------------------------------------------------
\* Asian cell aggregation: discounted price, variance, standard error.
\* D is the float np.exp(-risk_free_rate*Time).  Division of a float64 by
\* the integer 0 gives inf or nan with a RuntimeWarning, never an exception.
\* ---------------------------------------------------------------------
VARIABLES apay, disc, aprice, avar, avarKind, seKind, aerr, apc

aggVars == <<apay, disc, aprice, avar, avarKind, seKind, aerr, apc>>

AggMaxSims == 3

\* Asian payoffs: 0, 13/8, 3/2
AggPayVals == {FZero, [m |-> 13, e |-> -3], [m |-> 3, e |-> -1]}
\* np.exp(-risk_free_rate*Time): r*T = 0, r*T > 0, r*T < 0
DiscVals == {FOne, [m |-> 3, e |-> -2], [m |-> 1, e |-> -1], [m |-> 5, e |-> -2]}

\* Asian_Option_call_price = np.mean(payoffs)*np.exp(-risk_free_rate*Time)
AsianPriceUndisc(pay, D) == FMean(pay)
AsianPrice(pay, D) == FMul(FMean(pay), D)

\* var_matrix = np.power((payoffs - Asian_Option_call_price), 2); np.sum(var_matrix)
SqDevSum(pay, price) ==
  FSum([i \in 1..Len(pay) |-> LET d == FSub(pay[i], price) IN FMul(d, d)])

\* variance = np.sum(var_matrix)/(simulations-1)
VarKind(pay, price) ==
  IF Len(pay) - 1 # 0 THEN "finite"
  ELSE IF FEq(SqDevSum(pay, price), FZero) THEN "nan" ELSE "inf"
Variance(pay, price) ==
  IF Len(pay) - 1 # 0 THEN FDivN(SqDevSum(pay, price), Len(pay) - 1) ELSE FZero

AggInit ==
  /\ \E n \in 1..AggMaxSims : apay \in [1..n -> AggPayVals]
  /\ disc \in DiscVals
  /\ aprice = FZero
  /\ avar = FZero
  /\ avarKind = "none"
  /\ seKind = "none"
  /\ aerr = FALSE
  /\ apc = "sim"

\* the Asian cell after its payoff line: price, variance, standard_error
AsianAggregate ==
  /\ apc = "sim"
  /\ aprice' = AsianPrice(apay, disc)
  /\ avar' = Variance(apay, AsianPrice(apay, disc))
  /\ avarKind' = VarKind(apay, AsianPrice(apay, disc))
  \* standard_error = np.sqrt(variance/simulations): sqrt keeps inf and nan
  /\ seKind' = VarKind(apay, AsianPrice(apay, disc))
  /\ aerr' = FALSE
  /\ apc' = "done"
  /\ UNCHANGED <<apay, disc>>

AggNext == AsianAggregate

AggIdle ==
  /\ apay = <<>>
  /\ disc = FOne
  /\ aprice = FZero
  /\ avar = FZero
  /\ avarKind = "none"
  /\ seKind = "none"
  /\ aerr = FALSE
  /\ apc = "idle"

AllEqual(s) == \A i \in 1..Len(s) : FEq(s[i], s[1])

\* C6 (as stated): the variance of N identical payoffs is exactly 0.
C6_Original ==
  (apc = "done" /\ Len(apay) >= 2 /\ AllEqual(apay)) => FEq(avar, FZero)

\* C6 (amended): for N >= 2 identical payoffs c the variance, centred on the
\* discounted price, is 0 when c = 0 and strictly positive when c > 0 and
\* the discount factor differs from 1 by more than N * 2^(1-FloatPrec).
C6_Amended ==
  (apc = "done" /\ Len(apay) >= 2 /\ AllEqual(apay)) =>
    /\ FEq(apay[1], FZero) => FEq(avar, FZero)
    /\ (FLt(FZero, apay[1])
        /\ Abs(FNum(disc) - FDen(disc)) * 2^FloatPrec > 2 * Len(apay) * FDen(disc))
         => FLt(FZero, avar)

C6_Witness ==
  /\ apc = "done" /\ Len(apay) >= 2 /\ AllEqual(apay)
  /\ FLt(FZero, apay[1]) /\ ~FEq(disc, FOne)

\* C8: with fewer than 2 simulations a DegenerateSampleError is reported and
\* no nan or infinite variance or standard error is produced.
C8_Degenerate ==
  (apc = "done" /\ Len(apay) < 2) =>
    /\ aerr
    /\ avarKind = "finite"
    /\ seKind = "finite"

\* ---------------------------------------------------------------------
\* Path simulation cell, float64 range.  A positive float64 is kept as its
\* natural log (rounded to an integer); exp and products leave the float64
\* range above e^DblMaxLn (inf) and below e^DblMinLn (0.0); 0 * inf is nan.
\* ---------------------------------------------------------------------
VARIABLES lrate, lsigma, lnSpot, lz, lpaths, lpc

logVars == <<lrate, lsigma, lnSpot, lz, lpaths, lpc>>

\* exp(x) overflows for x > 709.78 and is 0.0 for x < -745.13
DblMaxLn == 709
DblMinLn == -745

LogMaxSims == 2
LogMaxSteps == 2

\* dt = Time / Time_steps = 1 (Time = Time_steps), sqrt(dt) = 1
SqrtDt == 1
RateVals == {0, 1, 800}
SigmaVals == {0, 2, 40}
LnSpotVals == {0, 5}
ZVals == {-1, 0, 1}

LFin(x) == [k |-> "fin", ln |-> x]
LZero == [k |-> "zero", ln |-> 0]
LInf == [k |-> "inf", ln |-> 0]
LNaN == [k |-> "nan", ln |-> 0]

\* a float64 of natural log x
LOfLn(x) == IF x > DblMaxLn THEN LInf ELSE IF x < DblMinLn THEN LZero ELSE LFin(x)

\* np.exp
LExp(x) == LOfLn(x)

\* float64 multiplication of non-negative values
LMul(a, b) ==
  IF a.k = "nan" \/ b.k = "nan" THEN LNaN
  ELSE IF (a.k = "zero" /\ b.k = "inf") \/ (a.k = "inf" /\ b.k = "zero") THEN LNaN
  ELSE IF a.k = "zero" \/ b.k = "zero" THEN LZero
  ELSE IF a.k = "inf" \/ b.k = "inf" THEN LInf
  ELSE LOfLn(a.ln + b.ln)

\* (risk_free_rate - sigma * sigma / 2) * dt + sigma * random * np.sqrt(dt)
LogRatioArg(r, sg, z) == (r - (sg * sg) \div 2) * SqrtDt * SqrtDt + sg * z * SqrtDt

RECURSIVE LCumProd(_, _)
\* np.cumprod(row, axis=1)[j]
LCumProd(row, j) == IF j = 1 THEN row[1] ELSE LMul(LCumProd(row, j - 1), row[j])

\* prices = spot_price * np.cumprod(ratio_matrix, axis=1)
LogPrices(r, sg, ls, Z) ==
  LET ratio == [i \in 1..Len(Z) |-> [j \in 1..Len(Z[i]) |-> LExp(LogRatioArg(r, sg, Z[i][j]))]]
  IN [i \in 1..Len(Z) |-> [j \in 1..Len(Z[i]) |-> LMul(LFin(ls), LCumProd(ratio[i], j))]]

LogInit ==
  /\ lrate \in RateVals
  /\ lsigma \in SigmaVals
  /\ lnSpot \in LnSpotVals
  /\ \E n \in 1..LogMaxSims, m \in 1..LogMaxSteps : lz \in [1..n -> [1..m -> ZVals]]
  /\ lpaths = <<>>
  /\ lpc = "init"

SimulateLog ==
  /\ lpc = "init"
  /\ lpaths' = LogPrices(lrate, lsigma, lnSpot, lz)
  /\ lpc' = "done"
  /\ UNCHANGED <<lrate, lsigma, lnSpot, lz>>

LogNext == SimulateLog

LogIdle ==
  /\ lrate = 0
  /\ lsigma = 0
  /\ lnSpot = 0
  /\ lz = <<>>
  /\ lpaths = <<>>
  /\ lpc = "idle"

\* C1 (as stated): every entry of the path matrix is strictly positive and finite.
C1_Original ==
  lpc = "done" =>
    \A i \in 1..Len(lpaths) : \A j \in 1..Len(lpaths[i]) : lpaths[i][j].k = "fin"

\* ---------------------------------------------------------------------
\* Path simulation cell, rounding.  G = exp((r - sigma^2/2) dt) and
\* H = exp(sigma sqrt(dt)) are real parameters taken rational here; a cell of
\* ratio_matrix is the float nearest G * H^Z.  Parameters are not validated:
\* Time_steps = 0 only stops the cell through dt = Time / 0.
\* ---------------------------------------------------------------------
VARIABLES pspot, psigma, ptime, pG, pH, psteps, pz, ppaths, perr, pstate

simVars == <<pspot, psigma, ptime, pG, pH, psteps, pz, ppaths, perr, pstate>>

SimMaxSims == 2
SimMaxSteps == 3

\* spot_price: 1, 3/2, 0, -1
SpotVals == {FOne, [m |-> 3, e |-> -1], FZero, [m |-> -1, e |-> 0]}
\* exp((r - sigma^2/2) dt) for Time > 0
GVals == {[n |-> 11, d |-> 10], [n |-> 9, d |-> 8]}
\* exp(sigma sqrt(dt)) for sigma > 0 and sigma < 0
HPos == [n |-> 3, d |-> 2]
HNeg == [n |-> 2, d |-> 3]
QOne == [n |-> 1, d |-> 1]
SimZVals == {-1, 1}

QPowZ(H, z) == IF z = 1 THEN H ELSE IF z = -1 THEN [n |-> H.d, d |-> H.n] ELSE QOne

\* ratio_matrix = np.exp((r - sigma*sigma/2)*dt + sigma*random*np.sqrt(dt))
Ratio(G, H, z) == RoundQ(G.n * QPowZ(H, z).n, 0, G.d * QPowZ(H, z).d)

RECURSIVE TCumProd(_, _)
TCumProd(row, j) == IF j = 1 THEN row[1] ELSE FMul(TCumProd(row, j - 1), row[j])

RECURSIVE TCumProdCol(_, _, _)
TCumProdCol(R, i, j) == IF i = 1 THEN R[1][j] ELSE FMul(TCumProdCol(R, i - 1, j), R[i][j])

RatioMatrix(G, H, Z) == [i \in 1..Len(Z) |-> [j \in 1..Len(Z[i]) |-> Ratio(G, H, Z[i][j])]]

PathPricesAxis0(spot, G, H, Z) ==
  [i \in 1..Len(Z) |-> [j \in 1..Len(Z[i]) |-> FMul(spot, TCumProdCol(RatioMatrix(G, H, Z), i, j))]]
\* prices = spot_price * np.cumprod(ratio_matrix, axis=1)
PathPrices(spot, G, H, Z) ==
  [i \in 1..Len(Z) |-> [j \in 1..Len(Z[i]) |-> FMul(spot, TCumProd(RatioMatrix(G, H, Z)[i], j))]]

SimInit ==
  /\ pspot \in SpotVals
  /\ psigma \in {-1, 0, 1}
  /\ ptime \in {0, 1}
  /\ pG \in IF ptime = 0 THEN {QOne} ELSE GVals
  /\ pH = IF ptime = 0 \/ psigma = 0 THEN QOne ELSE IF psigma > 0 THEN HPos ELSE HNeg
  /\ psteps \in 0..SimMaxSteps
  /\ \E n \in 0..SimMaxSims : pz \in [1..n -> [1..psteps -> SimZVals]]
  /\ ppaths = <<>>
  /\ perr = "none"
  /\ pstate = "init"

\* the simulation cell for Time_steps = 0: dt = Time / Time_steps raises
SimulateNoSteps ==
  /\ pstate = "init"
  /\ psteps = 0
  /\ perr' = "ZeroDivisionError"
  /\ pstate' = "done"
  /\ UNCHANGED <<pspot, psigma, ptime, pG, pH, psteps, pz, ppaths>>

\* the simulation cell: ratio_matrix and prices
Simulate ==
  /\ pstate = "init"
  /\ psteps # 0
  /\ ppaths' = PathPrices(pspot, pG, pH, pz)
  /\ pstate' = "done"
  /\ UNCHANGED <<pspot, psigma, ptime, pG, pH, psteps, pz, perr>>

SimNext == Simulate \/ SimulateNoSteps

SimIdle ==
  /\ pspot = FZero
  /\ psigma = 0
  /\ ptime = 0
  /\ pG = QOne
  /\ pH = QOne
  /\ psteps = 0
  /\ pz = <<>>
  /\ ppaths = <<>>
  /\ perr = "none"
  /\ pstate = "idle"

RECURSIVE QPow(_, _)
QPow(x, k) == IF k = 0 THEN 1 ELSE x * QPow(x, k - 1)

\* exact spot * exp(r * j * dt) = spot * G^j
ExactNum(j) == FNum(pspot) * QPow(pG.n, j)
ExactDen(j) == FDen(pspot) * QPow(pG.d, j)

Valid == FLt(FZero, pspot) /\ psigma >= 0 /\ ptime > 0 /\ pz # <<>> /\ psteps > 0

\* C7: invalid parameters are rejected with an error before any path is
\* simulated, and no path matrix is produced.
C7_Validation ==
  (pstate = "done" /\ ~Valid) => (perr # "none" /\ ppaths = <<>>)

\* ---------------------------------------------------------------------
\* Range cell: np.percentile(prices, q) over the flattened matrix and
\* scipy.stats.percentileofscore(prices, score), which for a 2-D array counts
\* along the last axis and scales by 50 / len(prices).  Prices are small
\* integers; results are fractions [num, den].
\* ---------------------------------------------------------------------
VARIABLES rprices, rq, rscore, pctVal, posRes, rpc

rangeVars == <<rprices, rq, rscore, pctVal, posRes, rpc>>

RangeMaxSims == 2
RangeMaxSteps == 2

RangePriceVals == {90, 100, 110}
QVals == {40, 50, 60}
ScoreVals == {95, 100, 105}

\* prices flattened in row-major order (np.percentile with axis=None)
Flatten(P) == [k \in 1..(Len(P) * Len(P[1])) |->
                 P[((k - 1) \div Len(P[1])) + 1][((k - 1) % Len(P[1])) + 1]]

\* k-th smallest entry of s (1-based)
OrderStat(s, k) ==
  CHOOSE v \in {s[i] : i \in 1..Len(s)} :
    /\ Cardinality({i \in 1..Len(s) : s[i] < v}) < k
    /\ k <= Cardinality({i \in 1..Len(s) : s[i] <= v})

\* np.percentile(prices, q), linear interpolation at (n - 1) * q / 100
Percentile(P, q) ==
  LET s == Flatten(P)
      n == Len(s)
      lo == ((n - 1) * q) \div 100
      hi == IF lo + 1 < n THEN lo + 1 ELSE lo
  IN [num |-> 100 * OrderStat(s, lo + 1)
               + ((n - 1) * q - 100 * lo) * (OrderStat(s, hi + 1) - OrderStat(s, lo + 1)),
      den |-> 100]

\* percentileofscore(row, score, kind='rank') counts: left + right + plus1
RankCount(row, score) ==
  LET left == Cardinality({j \in 1..Len(row) : row[j] < score})
      right == Cardinality({j \in 1..Len(row) : row[j] <= score})
  IN left + right + (IF left < right THEN 1 ELSE 0)

\* percentileofscore(prices, score): one value per row, times 50 / len(prices)
PercentileOfScore(P, score) ==
  [i \in 1..Len(P) |-> [num |-> 50 * RankCount(P[i], score), den |-> Len(P)]]

RangeInit ==
  /\ \E n \in 1..RangeMaxSims, m \in 1..RangeMaxSteps : rprices \in [1..n -> [1..m -> RangePriceVals]]
  /\ rq \in QVals
  /\ rscore \in ScoreVals
  /\ pctVal = [num |-> 0, den |-> 1]
  /\ posRes = <<>>
  /\ rpc = "sim"

RangeCell ==
  /\ rpc = "sim"
  /\ pctVal' = Percentile(rprices, rq)
  /\ posRes' = PercentileOfScore(rprices, rscore)
  /\ rpc' = "done"
  /\ UNCHANGED <<rprices, rq, rscore>>

RangeNext == RangeCell

RangeIdle ==
  /\ rprices = <<>>
  /\ rq = 0
  /\ rscore = 0
  /\ pctVal = [num |-> 0, den |-> 1]
  /\ posRes = <<>>
  /\ rpc = "idle"

\* C10: the percentile-of-score query returns one percentile rank of the
\* score in the flattened matrix (not one value per row or column).
C10_SingleRank ==
  rpc = "done" =>
    LET s == Flatten(rprices)
    IN /\ Len(posRes) = 1
       /\ posRes[1].num * Len(s) = 50 * RankCount(s, rscore) * posRes[1].den

\* ---------------------------------------------------------------------
\* Specifications: each runs one group of cells, the others stay idle
\* ---------------------------------------------------------------------
vars == <<payVars, barVars, choVars, aggVars, logVars, simVars, rangeVars>>

PayAll == PayInit /\ BarIdle /\ ChoIdle /\ AggIdle /\ LogIdle /\ SimIdle /\ RangeIdle
PayNextAll == PayNext /\ UNCHANGED <<barVars, choVars, aggVars, logVars, simVars, rangeVars>>
SpecPay == PayAll /\ [][PayNextAll]_vars

BarAll == BarInit /\ PayIdle /\ ChoIdle /\ AggIdle /\ LogIdle /\ SimIdle /\ RangeIdle
BarNextAll == BarNext /\ UNCHANGED <<payVars, choVars, aggVars, logVars, simVars, rangeVars>>
SpecBar == BarAll /\ [][BarNextAll]_vars

ChoAll == ChoInit /\ PayIdle /\ BarIdle /\ AggIdle /\ LogIdle /\ SimIdle /\ RangeIdle
ChoNextAll == ChoNext /\ UNCHANGED <<payVars, barVars, aggVars, logVars, simVars, rangeVars>>
SpecCho == ChoAll /\ [][ChoNextAll]_vars

AggAll == AggInit /\ PayIdle /\ BarIdle /\ ChoIdle /\ LogIdle /\ SimIdle /\ RangeIdle
AggNextAll == AggNext /\ UNCHANGED <<payVars, barVars, choVars, logVars, simVars, rangeVars>>
SpecAgg == AggAll /\ [][AggNextAll]_vars

LogAll == LogInit /\ PayIdle /\ BarIdle /\ ChoIdle /\ AggIdle /\ SimIdle /\ RangeIdle
LogNextAll == LogNext /\ UNCHANGED <<payVars, barVars, choVars, aggVars, simVars, rangeVars>>
SpecLog == LogAll /\ [][LogNextAll]_vars

SimAll == SimInit /\ PayIdle /\ BarIdle /\ ChoIdle /\ AggIdle /\ LogIdle /\ RangeIdle
SimNextAll == SimNext /\ UNCHANGED <<payVars, barVars, choVars, aggVars, logVars, rangeVars>>
SpecSim == SimAll /\ [][SimNextAll]_vars

RangeAll == RangeInit /\ PayIdle /\ BarIdle /\ ChoIdle /\ AggIdle /\ LogIdle /\ SimIdle
RangeNextAll == RangeNext /\ UNCHANGED <<payVars, barVars, choVars, aggVars, logVars, simVars>>
SpecRange == RangeAll /\ [][RangeNextAll]_vars

====
